---- MODULE Spec2Model ----
(***************************************************************************)
(* Model of etl_pipeline.py (Smart Budget car sales ETL).                  *)
(*                                                                         *)
(* The two copies of the script under src/ differ only in comments and in  *)
(* log text; line numbers below refer to                                   *)
(*   src/Car Sales Project/VSCode, SQL & Python/Python/etl_pipeline.py     *)
(*                                                                         *)
(* A DataFrame is [cols |-> sequence of column names,                      *)
(*                 rows |-> sequence of records column -> value].          *)
(* Cell values are non-null; a column's dtype is fixed by its name         *)
(* (NumericCols).  Money is kept exact until round(x, 2), whose result is  *)
(* held as an integer number of hundredths (300.00 is 30000).              *)
(***************************************************************************)
EXTENDS Integers, Sequences, FiniteSets, TLC

VARIABLES
    pc,        \* position of the script / of run_pipeline
    env,       \* [user, pass]: whether PG_USER / PG_PASS are set
    db,        \* contents of the six views in the database
    dfs,       \* run_pipeline's dict of fetched frames, in insertion order
    call,      \* the load_view call in progress, or the last one finished
    trace,     \* history of fetch resolutions, exports and the KPI computation
    args,      \* compute_kpis arguments [sales, top, monthly]
    loc,       \* compute_kpis locals
    result     \* what compute_kpis returned or raised

vars == <<pc, env, db, dfs, call, trace, args, loc, result>>

----------------------------------------------------------------------------
(* Bounds of the checked input space.                                      *)

MaxSalesRows == 2
MaxTopRows == 2
MaxMonthlyRows == 3
MaxPrice == 2
MaxRevSteps == 3

----------------------------------------------------------------------------
(* DataFrames.                                                             *)

None == "None"

EmptyFrame == [cols |-> <<>>, rows |-> <<>>]

Columns(f) == {f.cols[i] : i \in DOMAIN f.cols}

\* DataFrame.empty: true when any axis has length 0.
IsEmpty(f) == Len(f.cols) = 0 \/ Len(f.rows) = 0

\* df[new] = df[from]: the new column is appended after the existing ones.
AddColumn(f, new, from) ==
    [cols |-> Append(f.cols, new),
     rows |-> [i \in DOMAIN f.rows |->
                 [c \in Columns(f) \cup {new} |->
                     IF c = new THEN f.rows[i][from] ELSE f.rows[i][c]]]]

\* Columns whose dtype is numeric.
NumericCols == {"price", "total_revenue", "total_spent", "order_count",
                "units", "year", "month"}

RECURSIVE SumCol(_, _)
SumCol(rows, c) ==
    IF rows = <<>> THEN 0
    ELSE rows[1][c] + SumCol(Tail(rows), c)

RECURSIVE SelectSeq2(_, _)
\* The subsequence of cols whose names are in S, order kept.
SelectSeq2(cols, S) ==
    IF cols = <<>> THEN <<>>
    ELSE IF cols[1] \in S THEN <<cols[1]>> \o SelectSeq2(Tail(cols), S)
    ELSE SelectSeq2(Tail(cols), S)

----------------------------------------------------------------------------
(* round(x, 2) of the exact quotient num/den, in hundredths, ties to even.  *)

RoundHalfEven(n, d) ==
    LET q == n \div d
        r == n - q * d
    IN  IF 2 * r < d THEN q
        ELSE IF 2 * r > d THEN q + 1
        ELSE IF q % 2 = 0 THEN q ELSE q + 1

Round2(num, den) ==
    IF den > 0 THEN RoundHalfEven(100 * num, den)
    ELSE RoundHalfEven(0 - 100 * num, 0 - den)

----------------------------------------------------------------------------
(* compute_kpis, section by section.                                       *)

\* Mutant: the alias overwrites a price column that is present.
Reconcile_Overwrite(sales_df) ==
    LET d1 == IF "total_revenue" \in Columns(sales_df)
              THEN IF "price" \in Columns(sales_df)
                   THEN [sales_df EXCEPT !.rows =
                           [i \in DOMAIN sales_df.rows |->
                              [sales_df.rows[i] EXCEPT
                                 !["price"] = sales_df.rows[i]["total_revenue"]]]]
                   ELSE AddColumn(sales_df, "price", "total_revenue")
              ELSE sales_df
    IN  IF "customer_name" \notin Columns(d1) /\ "customer" \in Columns(d1)
        THEN AddColumn(d1, "customer_name", "customer")
        ELSE d1

\* Defensive renames: price <- total_revenue, customer_name <- customer,
\* each only when the canonical column is absent.
Reconcile(sales_df) ==
    LET d1 == IF "price" \notin Columns(sales_df)
                 /\ "total_revenue" \in Columns(sales_df)
              THEN AddColumn(sales_df, "price", "total_revenue")
              ELSE sales_df
    IN  IF "customer_name" \notin Columns(d1) /\ "customer" \in Columns(d1)
        THEN AddColumn(d1, "customer_name", "customer")
        ELSE d1

\* df["price"] raises KeyError when the frame has no such column.
PriceLookupRaises(df) == ~IsEmpty(df) /\ "price" \notin Columns(df)

\* Mutant: the sum taken with the wrong sign.
TotalRevenue_Negated(df) == IF ~IsEmpty(df) THEN 0 - SumCol(df.rows, "price") ELSE 0

\* float(df["price"].sum()) if not df.empty else 0.0
TotalRevenue(df) == IF ~IsEmpty(df) THEN SumCol(df.rows, "price") ELSE 0

\* df.groupby("customer_name")["price"].sum().mean(), as <<numerator, denominator>>
GroupMean(df) ==
    LET keys == {df.rows[i]["customer_name"] : i \in DOMAIN df.rows}
        GroupRows(k) == SelectSeq(df.rows, LAMBDA r : r["customer_name"] = k)
        RECURSIVE SumGroups(_)
        SumGroups(K) ==
            IF K = {} THEN 0
            ELSE LET k == CHOOSE x \in K : TRUE
                 IN  SumCol(GroupRows(k), "price") + SumGroups(K \ {k})
    IN  <<SumGroups(keys), Cardinality(keys)>>

\* Total revenue, order count, average order value, average revenue per
\* customer; raised when the price lookup raises.
SalesMetrics(df) ==
    IF PriceLookupRaises(df)
    THEN [raised |-> TRUE, total_revenue |-> 0, total_orders |-> 0,
          avg_order_value |-> <<0, 1>>, avg_revenue_per_customer |-> <<0, 1>>]
    ELSE LET total  == TotalRevenue(df)
             orders == Len(df.rows)
         IN  [raised |-> FALSE,
              total_revenue |-> total,
              total_orders |-> orders,
              avg_order_value |->
                  IF orders > 0 THEN <<total, orders>> ELSE <<0, 1>>,
              avg_revenue_per_customer |->
                  IF "customer_name" \in Columns(df) /\ ~IsEmpty(df)
                  THEN GroupMean(df) ELSE <<0, 1>>]

\* for c in ["total_revenue", "total_spent", "total_revenue"]
RevenueCandidates == <<"total_revenue", "total_spent", "total_revenue">>

\* Mutant: the fallback takes the last numeric column.
RevenueColumn_LastNumeric(f) ==
    LET hits == SelectSeq2(RevenueCandidates, Columns(f))
        numeric_cols == SelectSeq2(f.cols, NumericCols)
    IN  IF hits # <<>> THEN hits[1]
        ELSE IF Len(numeric_cols) > 0 THEN numeric_cols[Len(numeric_cols)]
        ELSE None

\* The revenue column of the top-customers frame, or None.
RevenueColumn(f) ==
    LET hits == SelectSeq2(RevenueCandidates, Columns(f))
        numeric_cols == SelectSeq2(f.cols, NumericCols)
    IN  IF hits # <<>> THEN hits[1]
        ELSE IF Len(numeric_cols) > 0 THEN numeric_cols[1]
        ELSE None

\* Name and revenue of the first row of the top-customers frame.
TopCustomer(top_customers_df) ==
    IF IsEmpty(top_customers_df)
    THEN [name |-> None, revenue |-> 0]
    ELSE LET row0 == top_customers_df.rows[1]
             rcol == RevenueColumn(top_customers_df)
         IN  [name |-> IF "customer_name" \in Columns(top_customers_df)
                       THEN row0["customer_name"]
                       ELSE row0[top_customers_df.cols[1]],
              revenue |-> IF rcol # None THEN row0[rcol] ELSE 0]

KeyLess(a, b) ==
    \/ a["year"] < b["year"]
    \/ a["year"] = b["year"] /\ a["month"] < b["month"]

RECURSIVE InsertSorted(_, _)
\* r placed after every row whose key is not greater (a stable sort).
InsertSorted(sorted, r) ==
    IF sorted = <<>> THEN <<r>>
    ELSE IF KeyLess(r, sorted[1]) THEN <<r>> \o sorted
    ELSE <<sorted[1]>> \o InsertSorted(Tail(sorted), r)

RECURSIVE SortRows(_)
SortRows(rows) ==
    IF rows = <<>> THEN <<>>
    ELSE InsertSorted(SortRows(SubSeq(rows, 1, Len(rows) - 1)), rows[Len(rows)])

\* Mutant: the rows are taken in the given order.
SortValues_Unsorted(monthly_df) == monthly_df

\* monthly_df.sort_values(["year", "month"]) when both columns exist.
SortValues(monthly_df) ==
    IF "year" \in Columns(monthly_df) /\ "month" \in Columns(monthly_df)
    THEN [monthly_df EXCEPT !.rows = SortRows(monthly_df.rows)]
    ELSE monthly_df

\* The try block: failed when mdf.iloc[-1]["total_revenue"] raises KeyError,
\* which the except clause absorbs, leaving monthly_growth_pct at 0.0.
MonthlyGrowth(monthly_df) ==
    LET mdf == SortValues(monthly_df)
        n   == Len(mdf.rows)
    IN  IF IsEmpty(mdf) THEN [failed |-> FALSE, pct |-> <<0, 1>>]
        ELSE IF "total_revenue" \notin Columns(mdf)
        THEN [failed |-> TRUE, pct |-> <<0, 1>>]
        ELSE LET last == mdf.rows[n]["total_revenue"]
                 prev == IF n > 1 THEN mdf.rows[n - 1]["total_revenue"] ELSE last
             IN  [failed |-> FALSE,
                  pct |-> IF prev # 0 THEN <<(last - prev) * 100, prev>>
                          ELSE <<0, 1>>]

\* The kpis dict: every monetary and percentage field through round(x, 2).
Package(sm, tc, mg) ==
    [total_revenue            |-> Round2(sm.total_revenue, 1),
     total_orders             |-> sm.total_orders,
     avg_order_value          |-> Round2(sm.avg_order_value[1], sm.avg_order_value[2]),
     avg_revenue_per_customer |-> Round2(sm.avg_revenue_per_customer[1],
                                         sm.avg_revenue_per_customer[2]),
     top_customer_name        |-> tc.name,
     top_customer_revenue     |-> Round2(tc.revenue, 1),
     monthly_growth_pct       |-> Round2(mg.pct[1], mg.pct[2])]

Raised(e) == [kind |-> "raise", exc |-> e]
Returned(k) == [kind |-> "return", kpis |-> k]

compute_kpis(sales_df, top_customers_df, monthly_df) ==
    LET sm == SalesMetrics(Reconcile(sales_df))
    IN  IF sm.raised THEN Raised("KeyError")
        ELSE Returned(Package(sm, TopCustomer(top_customers_df),
                              MonthlyGrowth(monthly_df)))

----------------------------------------------------------------------------
(* The bounded input space.                                                *)

Names == {"A", "B"}
Countries == {"FR"}
Amounts == {0 - 1} \cup 1..MaxPrice
MonthlyRevenues == {50 * k : k \in 0..MaxRevSteps}
MonthKeys == {<<2023, 12>>, <<2024, 11>>, <<2024, 12>>}

\* Values a column may hold; kind is "sales", "top" or "monthly".
Dom(kind, c) ==
    CASE c \in {"customer_name", "customer"} -> Names
      [] c = "country" -> Countries
      [] c = "year" -> {k[1] : k \in MonthKeys}
      [] c = "month" -> {k[2] : k \in MonthKeys}
      [] c = "total_revenue" /\ kind = "monthly" -> MonthlyRevenues
      [] OTHER -> Amounts

RECURSIVE RowsOver(_, _)
RowsOver(kind, cols) ==
    IF cols = <<>> THEN {[c \in {} |-> 0]}
    ELSE {(cols[1] :> v) @@ r : v \in Dom(kind, cols[1]),
                                r \in RowsOver(kind, Tail(cols))}

\* A (year, month) pair of a monthly row is one of MonthKeys.
RowOk(kind, r) ==
    kind = "monthly" /\ {"year", "month"} \subseteq DOMAIN r
        => <<r["year"], r["month"]>> \in MonthKeys

Rows(kind, cols) == {r \in RowsOver(kind, cols) : RowOk(kind, r)}

SalesColumns ==
    {<<"price">>, <<"total_revenue">>, <<"customer_name">>, <<"customer">>,
     <<"price", "customer_name">>, <<"total_revenue", "customer_name">>,
     <<"price", "customer">>, <<"total_revenue", "customer">>,
     <<"price", "total_revenue">>, <<"customer_name", "customer">>,
     <<"price", "total_revenue", "customer_name">>,
     <<"price", "customer_name", "customer">>}

TopColumns ==
    {<<"customer_name", "total_revenue">>, <<"customer_name", "total_spent">>,
     <<"total_spent", "total_revenue">>, <<"country", "order_count">>,
     <<"country", "order_count", "units">>, <<"units", "order_count">>,
     <<"country">>, <<"customer_name">>,
     <<"country", "customer_name", "total_spent">>}

MonthlyColumns ==
    {<<"year", "month", "total_revenue">>, <<"total_revenue">>,
     <<"year", "total_revenue">>, <<"year", "month">>, <<"month">>}

\* The end-to-end scenario's three extracts.
ScenarioSales ==
    [cols |-> <<"price", "customer_name">>,
     rows |-> <<[price |-> 100, customer_name |-> "A"],
                [price |-> 200, customer_name |-> "B"]>>]
ScenarioTop ==
    [cols |-> <<"customer_name", "total_revenue">>,
     rows |-> <<[customer_name |-> "A", total_revenue |-> 300]>>]
ScenarioMonthly ==
    [cols |-> <<"year", "month", "total_revenue">>,
     rows |-> <<[year |-> 2024, month |-> 11, total_revenue |-> 100],
                [year |-> 2024, month |-> 12, total_revenue |-> 150]>>]

\* Representative extracts: empty, well-formed, and missing the column the
\* KPI computation reads.
RepSales ==
    {EmptyFrame, ScenarioSales,
     [cols |-> <<"customer_name">>, rows |-> <<[customer_name |-> "A"]>>]}
RepTop == {EmptyFrame, ScenarioTop}
RepMonthly ==
    {EmptyFrame, ScenarioMonthly,
     [cols |-> <<"year", "month">>, rows |-> <<[year |-> 2024, month |-> 12]>>]}

----------------------------------------------------------------------------
(* State shared by both specifications.                                    *)

Views == <<"vw_sales_export", "summary_revenue_country", "summary_top_customers",
           "summary_deal_size", "vw_monthly_revenue", "vw_null_summary">>

ViewSet == {Views[i] : i \in DOMAIN Views}

NoCall == [view |-> None, primary |-> 0, fallback |-> 0,
           primary_failed |-> FALSE, fallback_failed |-> FALSE,
           outcome |-> "none", df |-> EmptyFrame]
NoArgs == [sales |-> EmptyFrame, top |-> EmptyFrame, monthly |-> EmptyFrame]
NoLocals == [stage |-> "none"]
NoResult == [kind |-> "none"]

\* A frame of a view the KPI computation does not read.
OtherFrame == [cols |-> <<"country">>, rows |-> <<[country |-> "FR"]>>]

\* The database holding the end-to-end scenario.
ScenarioDb ==
    [v \in ViewSet |->
        CASE v = "vw_sales_export" -> ScenarioSales
          [] v = "summary_top_customers" -> ScenarioTop
          [] v = "vw_monthly_revenue" -> ScenarioMonthly
          [] OTHER -> OtherFrame]

----------------------------------------------------------------------------
(* compute_kpis, stepped through its sections (specification SpecKpi).     *)

InitKpi ==
    /\ pc = "reconcile"
    /\ env = [user |-> TRUE, pass |-> TRUE]
    /\ db = ScenarioDb
    /\ dfs = <<>>
    /\ call = NoCall
    /\ trace = <<>>
    /\ \/ \E cs \in SalesColumns, k \in 0..MaxSalesRows :
             \E rs \in [1..k -> Rows("sales", cs)] :
                args = [sales |-> [cols |-> cs, rows |-> rs],
                        top |-> ScenarioTop, monthly |-> ScenarioMonthly]
       \/ \E cs \in TopColumns, k \in 0..MaxTopRows :
             \E rs \in [1..k -> Rows("top", cs)] :
                args = [sales |-> ScenarioSales,
                        top |-> [cols |-> cs, rows |-> rs],
                        monthly |-> ScenarioMonthly]
       \/ \E cs \in MonthlyColumns, k \in 0..MaxMonthlyRows :
             \E rs \in [1..k -> Rows("monthly", cs)] :
                args = [sales |-> ScenarioSales, top |-> ScenarioTop,
                        monthly |-> [cols |-> cs, rows |-> rs]]
       \/ \E s \in RepSales, t \in RepTop, m \in RepMonthly :
             args = [sales |-> s, top |-> t, monthly |-> m]
    /\ loc = NoLocals
    /\ result = NoResult

KpiReconcile ==
    /\ pc = "reconcile"
    /\ loc' = [stage |-> "reconciled", df |-> Reconcile(args.sales)]
    /\ pc' = "sales"
    /\ UNCHANGED <<env, db, dfs, call, trace, args, result>>

KpiSales ==
    /\ pc = "sales"
    /\ LET sm == SalesMetrics(loc.df)
       IN  IF sm.raised
           THEN /\ result' = Raised("KeyError")
                /\ pc' = "raised"
                /\ loc' = loc
           ELSE /\ loc' = [stage |-> "sales", df |-> loc.df, sm |-> sm]
                /\ pc' = "top"
                /\ result' = result
    /\ UNCHANGED <<env, db, dfs, call, trace, args>>

KpiTopCustomer ==
    /\ pc = "top"
    /\ loc' = [stage |-> "top", df |-> loc.df, sm |-> loc.sm,
               tc |-> TopCustomer(args.top)]
    /\ pc' = "monthly"
    /\ UNCHANGED <<env, db, dfs, call, trace, args, result>>

\* Mutant: the handler lets the exception out of compute_kpis.
MonthlyExcept_Reraise == "raised"

\* except Exception as e: log.warning(...) -- control continues after the try.
MonthlyExcept == "package"

KpiMonthlyGrowth ==
    /\ pc = "monthly"
    /\ loc' = [stage |-> "monthly", df |-> loc.df, sm |-> loc.sm, tc |-> loc.tc,
               mg |-> MonthlyGrowth(args.monthly)]
    /\ pc' = IF loc'.mg.failed THEN MonthlyExcept ELSE "package"
    /\ UNCHANGED <<env, db, dfs, call, trace, args, result>>

KpiPackage ==
    /\ pc = "package"
    /\ result' = Returned(Package(loc.sm, loc.tc, loc.mg))
    /\ pc' = "returned"
    /\ UNCHANGED <<env, db, dfs, call, trace, args, loc>>

NextKpi ==
    \/ KpiReconcile
    \/ KpiSales
    \/ KpiTopCustomer
    \/ KpiMonthlyGrowth
    \/ KpiPackage

SpecKpi == InitKpi /\ [][NextKpi]_vars

----------------------------------------------------------------------------
(* The script: credential check, then run_pipeline (specification Spec).   *)

Init ==
    /\ pc = "import"
    /\ env \in [user : BOOLEAN, pass : BOOLEAN]
    /\ \E s \in RepSales, t \in RepTop, m \in RepMonthly :
          db = [v \in ViewSet |->
                  CASE v = "vw_sales_export" -> s
                    [] v = "summary_top_customers" -> t
                    [] v = "vw_monthly_revenue" -> m
                    [] OTHER -> OtherFrame]
    /\ dfs = <<>>
    /\ call = NoCall
    /\ trace = <<>>
    /\ args = NoArgs
    /\ loc = NoLocals
    /\ result = NoResult

\* if not PG_USER or not PG_PASS: raise SystemExit(1)
CredentialCheck ==
    /\ pc = "import"
    /\ pc' = IF env.user /\ env.pass THEN "main" ELSE "exit"
    /\ UNCHANGED <<env, db, dfs, call, trace, args, loc, result>>

get_engine ==
    /\ pc = "main"
    /\ pc' = "load"
    /\ UNCHANGED <<env, db, dfs, call, trace, args, loc, result>>

\* What load_view does once pd.read_sql_table has succeeded or failed.
AfterPrimary(c, ok) ==
    IF ok
    THEN [c EXCEPT !.outcome = "returned", !.df = db[c.view]]
    ELSE [c EXCEPT !.primary_failed = TRUE, !.outcome = "fallback"]

\* Mutant: a failed fallback is tried again.
AfterFallback_Retry(c, ok) ==
    IF ok
    THEN [c EXCEPT !.outcome = "returned", !.df = db[c.view]]
    ELSE [c EXCEPT !.fallback_failed = TRUE, !.outcome = "fallback"]

\* What load_view does once the fallback pd.read_sql has succeeded or failed:
\* the except block has no handler of its own, so a failure leaves load_view.
AfterFallback(c, ok) ==
    IF ok
    THEN [c EXCEPT !.outcome = "returned", !.df = db[c.view]]
    ELSE [c EXCEPT !.fallback_failed = TRUE, !.outcome = "raised"]

\* load_view up to the end of its try block.
LoadViewPrimary ==
    /\ pc = "load"
    /\ Len(dfs) < Len(Views)
    /\ \E ok \in BOOLEAN :
          call' = AfterPrimary([NoCall EXCEPT !.view = Views[Len(dfs) + 1],
                                              !.primary = 1], ok)
    /\ pc' = "in_load_view"
    /\ UNCHANGED <<env, db, dfs, trace, args, loc, result>>

\* load_view's except block.
LoadViewFallback ==
    /\ pc = "in_load_view"
    /\ call.outcome = "fallback"
    /\ \E ok \in BOOLEAN :
          call' = AfterFallback([call EXCEPT !.fallback = call.fallback + 1], ok)
    /\ UNCHANGED <<pc, env, db, dfs, trace, args, loc, result>>

\* Mutant: the export loop nested in the fetch loop.
AfterFetch_ExportEarly(n) == "export"

\* Where run_pipeline goes once a view's fetch has resolved.
AfterFetch(n) == IF n = Len(Views) THEN "export" ELSE "load"

\* dfs[key] = load_view(engine, view)
StoreFrame ==
    /\ pc = "in_load_view"
    /\ call.outcome = "returned"
    /\ dfs' = Append(dfs, [key |-> call.view, df |-> call.df])
    /\ trace' = Append(trace, [ev |-> "fetch", name |-> call.view])
    /\ pc' = AfterFetch(Len(dfs'))
    /\ UNCHANGED <<env, db, call, args, loc, result>>

\* except Exception: dfs[key] = pd.DataFrame()
CatchLoadFailure ==
    /\ pc = "in_load_view"
    /\ call.outcome = "raised"
    /\ dfs' = Append(dfs, [key |-> call.view, df |-> EmptyFrame])
    /\ trace' = Append(trace, [ev |-> "fetch_failed", name |-> call.view])
    /\ pc' = AfterFetch(Len(dfs'))
    /\ UNCHANGED <<env, db, call, args, loc, result>>

Exports(t) == SelectSeq(t, LAMBDA e : e.ev = "export")

\* One iteration of: for key, df in dfs.items(): export_csv(df, key)
ExportView ==
    /\ pc = "export"
    /\ LET j == Len(Exports(trace)) + 1
       IN  /\ j <= Len(dfs)
           /\ trace' = Append(trace, [ev |-> "export", name |-> dfs[j].key])
           /\ pc' = IF j = Len(dfs) THEN "kpi" ELSE "export"
    /\ UNCHANGED <<env, db, dfs, call, args, loc, result>>

\* dfs.get(key, pd.DataFrame())
Get(d, key) ==
    IF \E i \in DOMAIN d : d[i].key = key
    THEN d[CHOOSE i \in DOMAIN d : d[i].key = key].df
    ELSE EmptyFrame

\* kpi_df = compute_kpis(...): an exception it raises leaves run_pipeline.
ComputeKpis ==
    /\ pc = "kpi"
    /\ args' = [sales   |-> Get(dfs, "vw_sales_export"),
                top     |-> Get(dfs, "summary_top_customers"),
                monthly |-> Get(dfs, "vw_monthly_revenue")]
    /\ result' = compute_kpis(args'.sales, args'.top, args'.monthly)
    /\ trace' = Append(trace, [ev |-> "kpi", name |-> result'.kind])
    /\ pc' = IF result'.kind = "raise" THEN "crashed" ELSE "export_kpi"
    /\ UNCHANGED <<env, db, dfs, call, loc>>

\* export_csv(kpi_df, "kpi_summary")
ExportKpi ==
    /\ pc = "export_kpi"
    /\ trace' = Append(trace, [ev |-> "export", name |-> "kpi_summary"])
    /\ pc' = "done"
    /\ UNCHANGED <<env, db, dfs, call, args, loc, result>>

Next ==
    \/ CredentialCheck
    \/ get_engine
    \/ LoadViewPrimary
    \/ LoadViewFallback
    \/ StoreFrame
    \/ CatchLoadFailure
    \/ ExportView
    \/ ComputeKpis
    \/ ExportKpi

Spec == Init /\ [][Next]_vars

----------------------------------------------------------------------------
(* Properties of run_pipeline and load_view (specification Spec).          *)

Fetched(t) == SelectSeq(t, LAMBDA e : e.ev \in {"fetch", "fetch_failed"})
FailedViews == {trace[i].name : i \in {j \in DOMAIN trace : trace[j].ev = "fetch_failed"}}
ExportNames == [i \in DOMAIN Exports(trace) |-> Exports(trace)[i].name]
AllArtifacts == Views \o <<"kpi_summary">>

\* C1: whatever non-empty subset of the six views fails on both strategies,
\* each failed view is held as an empty frame, the run does not stop before
\* completion, and a completed run has exported all six extracts and the
\* KPI record computed from the substituted frames.
C1_FailedViewsIsolated ==
    FailedViews # {} =>
        /\ \A i \in DOMAIN dfs : dfs[i].key \in FailedViews => dfs[i].df = EmptyFrame
        /\ pc # "crashed"
        /\ pc = "done" => ExportNames = AllArtifacts /\ result.kind = "return"

\* C2: once the credential check has passed, nothing ends the run before
\* kpi_summary is exported: the run never stops in a state other than the
\* one in which all seven artifacts are written.
C2_OnlyCredentialCheckTerminates ==
    env.user /\ env.pass =>
        /\ pc \notin {"exit", "crashed"}
        /\ pc = "done" => ExportNames = AllArtifacts

\* C3: the phases are strictly ordered: every export comes after the fetch
\* of all six views has resolved, the KPI computation comes after the export
\* of all six raw extracts, and the kpi_summary export is the last write.
C3_PhasesOrdered ==
    \A i \in DOMAIN trace :
        LET before == SubSeq(trace, 1, i - 1)
        IN  /\ trace[i].ev = "export" =>
                 {Fetched(before)[j].name : j \in DOMAIN Fetched(before)} = ViewSet
            /\ trace[i].ev = "kpi" =>
                 [j \in DOMAIN Exports(before) |-> Exports(before)[j].name] = Views
            /\ trace[i].ev = "export" /\ trace[i].name = "kpi_summary" =>
                 /\ i = Len(trace)
                 /\ before # <<>> /\ before[Len(before)].ev = "kpi"

C3_Witness ==
    /\ pc = "done"
    /\ FailedViews # {}
    /\ ExportNames = AllArtifacts

\* C4: in each load_view call the primary strategy is attempted exactly once,
\* the fallback exactly once if and only if the primary failed; a primary
\* success is returned as is, and a fallback failure leaves load_view as an
\* exception, which the caller handles.
C4_OneFallback ==
    /\ call.primary <= 1 /\ call.fallback <= 1
    /\ call.fallback = 1 => call.primary_failed
    /\ call.outcome \in {"returned", "raised"} =>
          /\ call.primary = 1
          /\ call.fallback = (IF call.primary_failed THEN 1 ELSE 0)
          /\ ~call.primary_failed =>
                call.outcome = "returned" /\ call.df = db[call.view]
          /\ call.primary_failed /\ ~call.fallback_failed =>
                call.outcome = "returned" /\ call.df = db[call.view]
          /\ (call.primary_failed /\ call.fallback_failed) <=> call.outcome = "raised"
    /\ \A i \in DOMAIN dfs :
          dfs[i].key = call.view =>
              (call.outcome = "raised" <=> call.view \in FailedViews)

C4_Witness ==
    /\ call.outcome = "raised"
    /\ call.primary = 1 /\ call.fallback = 1
    /\ call.view \in FailedViews

----------------------------------------------------------------------------
(* Properties of compute_kpis (specification SpecKpi).                     *)

Finished == pc \in {"returned", "raised"}

\* The stepped computation and the one-step operator agree.
KpiStepsAgree ==
    Finished => result = compute_kpis(args.sales, args.top, args.monthly)

\* The end-to-end scenario: 300.00, 2, 150.00, 150.00, "A", 300.00, 50.0.
EndToEndScenario ==
    pc = "returned" /\ args = [sales |-> ScenarioSales, top |-> ScenarioTop,
                               monthly |-> ScenarioMonthly] =>
        result.kpis = [total_revenue |-> 30000, total_orders |-> 2,
                       avg_order_value |-> 15000,
                       avg_revenue_per_customer |-> 15000,
                       top_customer_name |-> "A",
                       top_customer_revenue |-> 30000,
                       monthly_growth_pct |-> 5000]

HasRows(f) == Len(f.rows) > 0
Cells(f, c) == {f.rows[i][c] : i \in DOMAIN f.rows}
RowTotal(f, c) == SumCol(f.rows, c)

\* C5: total_revenue is the sum of price over all sales rows, and 0.0,
\* without raising, when the sales extract is empty or has neither a price
\* nor a total_revenue column.
C5_TotalRevenue ==
    Finished =>
        LET s == args.sales
            expected ==
                IF ~HasRows(s) THEN 0
                ELSE IF "price" \in Columns(s) THEN 100 * RowTotal(s, "price")
                ELSE IF "total_revenue" \in Columns(s)
                     THEN 100 * RowTotal(s, "total_revenue")
                ELSE 0
        IN  /\ result.kind = "return"
            /\ result.kpis.total_revenue = expected

Injections(n) == {p \in [1..n -> 1..n] : \A i, j \in 1..n : p[i] = p[j] => i = j}

\* p lists the rows of f in ascending (year, month) order, or in the given
\* order when f lacks one of the two columns.
Ascending(f, p) ==
    IF {"year", "month"} \subseteq Columns(f)
    THEN \A i, j \in DOMAIN f.rows :
            i < j =>
               LET a == f.rows[p[i]]
                   b == f.rows[p[j]]
               IN  a["year"] < b["year"]
                   \/ (a["year"] = b["year"] /\ a["month"] <= b["month"])
    ELSE \A i \in DOMAIN f.rows : p[i] = i

\* g hundredths of a percent is (last - prev) / prev * 100 to two decimals.
IsGrowth(g, last, prev) ==
    IF prev = 0 THEN g = 0
    ELSE LET err == g * prev - (last - prev) * 10000
             mag == IF prev < 0 THEN 0 - prev ELSE prev
         IN  2 * err <= mag /\ 2 * err >= 0 - mag

ReverseRows(f) ==
    [f EXCEPT !.rows = [i \in DOMAIN f.rows |-> f.rows[Len(f.rows) + 1 - i]]]

\* C6: with a total_revenue column, monthly_growth_pct is 0.0 for an empty
\* extract and otherwise (last - prev) / prev * 100 (0.0 when prev is 0),
\* last and prev being the final and second-to-last rows of the extract
\* ordered by (year, month) when both columns exist, in the given order
\* otherwise; (2024,11,100), (2024,12,150) gives 50.0 in either order.
C6_MonthlyGrowth ==
    pc = "returned" /\ "total_revenue" \in Columns(args.monthly) =>
        LET m == args.monthly
            n == Len(m.rows)
            g == result.kpis.monthly_growth_pct
        IN  /\ n = 0 => g = 0
            /\ n > 0 =>
                 \E p \in Injections(n) :
                    /\ Ascending(m, p)
                    /\ IsGrowth(g, m.rows[p[n]]["total_revenue"],
                                IF n > 1 THEN m.rows[p[n - 1]]["total_revenue"]
                                ELSE m.rows[p[n]]["total_revenue"])
            /\ m \in {ScenarioMonthly, ReverseRows(ScenarioMonthly)} => g = 5000

C6_Witness ==
    /\ pc = "returned"
    /\ args.monthly = ReverseRows(ScenarioMonthly)
    /\ result.kpis.monthly_growth_pct = 5000

SameButGrowth(k1, k2) ==
    /\ k1.total_revenue = k2.total_revenue
    /\ k1.total_orders = k2.total_orders
    /\ k1.avg_order_value = k2.avg_order_value
    /\ k1.avg_revenue_per_customer = k2.avg_revenue_per_customer
    /\ k1.top_customer_name = k2.top_customer_name
    /\ k1.top_customer_revenue = k2.top_customer_revenue

\* C7: when the monthly-growth computation fails, compute_kpis still returns
\* a record: the failure never leaves compute_kpis, monthly_growth_pct is
\* 0.0 and the other six fields are those of the same sales and
\* topCustomers extracts with an empty monthly extract.
C7_MonthlyFailureAbsorbed ==
    /\ pc = "raised" => loc.stage = "reconciled"
    /\ pc = "returned" /\ loc.mg.failed =>
          LET base == compute_kpis(args.sales, args.top, EmptyFrame)
          IN  /\ result.kind = "return"
              /\ result.kpis.monthly_growth_pct = 0
              /\ base.kind = "return"
              /\ SameButGrowth(result.kpis, base.kpis)

C7_Witness ==
    /\ pc = "returned"
    /\ loc.mg.failed
    /\ HasRows(args.monthly) /\ "total_revenue" \notin Columns(args.monthly)
    /\ result.kpis.total_revenue > 0

FirstNumeric(f) ==
    f.cols[CHOOSE i \in DOMAIN f.cols :
              /\ f.cols[i] \in NumericCols
              /\ \A j \in 1..(i - 1) : f.cols[j] \notin NumericCols]

Rename(f, a, b) ==
    [cols |-> [i \in DOMAIN f.cols |-> IF f.cols[i] = a THEN b ELSE f.cols[i]],
     rows |-> [i \in DOMAIN f.rows |->
                 [c \in (Columns(f) \ {a}) \cup {b} |->
                     IF c = b THEN f.rows[i][a] ELSE f.rows[i][c]]]]

\* The frame without column a.
Drop(f, a) ==
    [cols |-> SelectSeq(f.cols, LAMBDA c : c # a),
     rows |-> [i \in DOMAIN f.rows |-> [c \in Columns(f) \ {a} |-> f.rows[i][c]]]]

\* C9: a sales extract with total_revenue and no price gives what the
\* extract with the same values in a price column gives (likewise customer
\* for customer_name); with canonical column and alias both present the
\* canonical values are used, the alias having no effect.
C9_AliasReconciliation ==
    Finished =>
        LET s == args.sales
            Same(f) == result = compute_kpis(f, args.top, args.monthly)
        IN  /\ "total_revenue" \in Columns(s) /\ "price" \notin Columns(s) =>
                 result.kind = "return" /\ Same(Rename(s, "total_revenue", "price"))
            /\ "customer" \in Columns(s) /\ "customer_name" \notin Columns(s) =>
                 Same(Rename(s, "customer", "customer_name"))
            /\ "price" \in Columns(s) /\ "total_revenue" \in Columns(s) =>
                 Same(Drop(s, "total_revenue"))
            /\ "customer_name" \in Columns(s) /\ "customer" \in Columns(s) =>
                 Same(Drop(s, "customer"))

C9_Witness ==
    /\ pc = "returned"
    /\ args.sales.cols = <<"total_revenue", "customer">>
    /\ Len(args.sales.rows) = 2
    /\ args.sales.rows[1]["customer"] # args.sales.rows[2]["customer"]
    /\ result.kpis.total_revenue = 100 * RowTotal(args.sales, "total_revenue")
    /\ result.kpis.avg_revenue_per_customer # 0

FiveNonNegative(k) ==
    /\ k.total_revenue >= 0
    /\ k.total_orders >= 0
    /\ k.avg_order_value >= 0
    /\ k.avg_revenue_per_customer >= 0
    /\ k.top_customer_revenue >= 0

\* C10 as stated: for any input extracts the five fields are non-negative.
C10_NonNegative ==
    pc = "returned" => FiveNonNegative(result.kpis)

\* The price values the computation reads, and the numeric cells of row 0
\* of the top-customers extract.
PriceCells(s) ==
    IF "price" \in Columns(s) THEN Cells(s, "price")
    ELSE IF "total_revenue" \in Columns(s) THEN Cells(s, "total_revenue")
    ELSE {}
Row0Numbers(t) ==
    IF HasRows(t) THEN {t.rows[1][c] : c \in Columns(t) \cap NumericCols} ELSE {}

\* C10 amended: when no price value of the sales extract and no numeric
\* value of row 0 of the topCustomers extract is negative, the five fields
\* are non-negative, whatever the sign of monthly_growth_pct.
C10_NonNegativeForNonNegativeInputs ==
    /\ pc = "returned"
    /\ \A v \in PriceCells(args.sales) \cup Row0Numbers(args.top) : v >= 0
    => FiveNonNegative(result.kpis)

C10_Witness ==
    /\ pc = "returned"
    /\ \A v \in PriceCells(args.sales) \cup Row0Numbers(args.top) : v >= 0
    /\ result.kpis.total_revenue > 0
    /\ result.kpis.top_customer_revenue > 0
    /\ result.kpis.monthly_growth_pct < 0

====
